---- MODULE Spec2Model ----
(***************************************************************************)
(* Duplicate-report detection service: per-tenant embedding pipeline,      *)
(* remote artifact cache, tenant registry, hybrid search over the default  *)
(* corpus and over tenant data.                                            *)
(*                                                                         *)
(* A record (bug report row) is an identifier in RecIds; its metadata is   *)
(* given by the operators Application, Platform.  A tabular dataset, a     *)
(* vector array and an index are sequences of record identifiers: entry i  *)
(* of a vector array is "the vector of that record".  A file is            *)
(* [ex, rows]: whether it exists and the rows it was written from.         *)
(***************************************************************************)
EXTENDS Integers, Sequences, FiniteSets, TLC

\* ------------------------------------------------------------------ bounds
MaxRec == 2
MaxRows == 2
MaxUpload == 1
MaxFaults == 1
MaxSeeds == 1
MaxReports == 2

RecIds == 1..MaxRec
Tenants == {"u1", "u2"}

\* --------------------------------------------------------- generic helpers
Range(s) == {s[i] : i \in DOMAIN s}

Absent == [ex |-> FALSE, rows |-> <<>>]
File(rows) == [ex |-> TRUE, rows |-> rows]

\* ------------------------------------------------------------- cache tier
\* names of the files the cache tier moves
files_to_upload == <<"embeddings.npy", "faiss_index.bin", "metadata.json", "data.csv">>
files_to_download == <<"embeddings.npy", "faiss_index.bin", "metadata.json", "data.csv">>
essential_files == <<"embeddings.npy", "faiss_index.bin", "metadata.json">>

RemoteNames == Range(files_to_upload) \cup Range(files_to_download) \cup Range(essential_files)
\* names of the files of a tenant directory data/user_embeddings/<user_id>/
LocalNames == RemoteNames \cup {"faiss_index.index"}

EmptyDir == [f \in LocalNames |-> Absent]
EmptyBucket == [f \in RemoteNames |-> Absent]

\* check_artifacts_exist: every essential file has a blob; an exception of
\* the store is swallowed and reported as False
check_artifacts_exist(initialized, rem, raises) ==
    IF ~initialized THEN FALSE
    ELSE IF raises THEN FALSE
    ELSE \A i \in DOMAIN essential_files : rem[essential_files[i]].ex

\* the value upload_user_artifacts returns after its loop
UploadResult(uploaded_count) == uploaded_count > 0

\* the value download_user_artifacts returns after its loop
DownloadResultAny(downloaded_count) == downloaded_count > 0
DownloadResult(downloaded_count) == downloaded_count = Len(files_to_download)

\* upload loop: file i is skipped when missing locally; a transfer that
\* raises (failAt = i) leaves the earlier files uploaded and returns False
RECURSIVE UploadLoop(_, _, _, _, _)
UploadLoop(i, local, rem, uploaded_count, failAt) ==
    IF i > Len(files_to_upload)
    THEN [ok |-> UploadResult(uploaded_count), remote |-> rem,
          count |-> uploaded_count, raised |-> FALSE]
    ELSE LET filename == files_to_upload[i] IN
         IF ~local[filename].ex
         THEN UploadLoop(i + 1, local, rem, uploaded_count, failAt)
         ELSE IF failAt = i
         THEN [ok |-> FALSE, remote |-> rem, count |-> uploaded_count, raised |-> TRUE]
         ELSE UploadLoop(i + 1, local, [rem EXCEPT ![filename] = local[filename]],
                         uploaded_count + 1, failAt)

upload_user_artifacts(initialized, local, rem, failAt) ==
    IF ~initialized
    THEN [ok |-> FALSE, remote |-> rem, count |-> 0, raised |-> FALSE]
    ELSE UploadLoop(1, local, rem, 0, failAt)

\* download loop: file i is skipped when it has no blob; a transfer that
\* raises (failAt = i) leaves the earlier files on disk and returns False
RECURSIVE DownloadLoop(_, _, _, _, _)
DownloadLoop(i, local, rem, downloaded_count, failAt) ==
    IF i > Len(files_to_download)
    THEN [ok |-> DownloadResult(downloaded_count), disk |-> local,
          count |-> downloaded_count, raised |-> FALSE]
    ELSE LET filename == files_to_download[i] IN
         IF ~rem[filename].ex
         THEN DownloadLoop(i + 1, local, rem, downloaded_count, failAt)
         ELSE IF failAt = i
         THEN [ok |-> FALSE, disk |-> local, count |-> downloaded_count, raised |-> TRUE]
         ELSE DownloadLoop(i + 1, [local EXCEPT ![filename] = rem[filename]], rem,
                           downloaded_count + 1, failAt)

download_user_artifacts(initialized, local, rem, failAt) ==
    IF ~initialized
    THEN [ok |-> FALSE, disk |-> local, count |-> 0, raised |-> FALSE]
    ELSE DownloadLoop(1, local, rem, 0, failAt)

\* ------------------------------------------------- black-box model scores
\* Stand-ins for the two models: the inner product of the bi-encoder vectors
\* of query q and record r, and the cross-encoder score of the pair.
Dist(q, r) == IF q > r THEN q - r ELSE r - q
Sim(q, r) == 10 - 2 * Dist(q, r)
CE(q, r) == 5 - Dist(q, r)
\* SequenceMatcher ratio * 10 plus 2 per matching word of the fallback search
Txt(q, r) == IF q = r THEN 12 ELSE IF Dist(q, r) = 1 THEN 3 ELSE 0

\* metadata of a record
Application(r) == IF r % 2 = 1 THEN "BiP" ELSE "Fizy"

\* parts[:3]
Take3(parts) == IF Len(parts) <= 3 THEN parts ELSE SubSeq(parts, 1, 3)

\* ---------------------------------------------------------------- versions
\* A version value is what a request or the App Version column can hold: a
\* string, given by the digit groups re.findall(r'\d+') finds in it, the
\* empty string, the string 'N/A', or a value that is not a string (NaN).
\* Similarities are in hundredths.
MaxGroups == 4
NoVersion == [kind |-> "empty", groups |-> <<>>]
NAVersion == [kind |-> "N/A", groups |-> <<>>]
NaNVersion == [kind |-> "nan", groups |-> <<>>]
Ver(g) == [kind |-> "text", groups |-> g]

\* _normalize_version: the first three digit groups, padded with zeros
_normalize_version(version) ==
    IF version.kind # "text" THEN <<0, 0, 0>>
    ELSE IF version.groups = <<>> THEN <<0, 0, 0>>
    ELSE LET parts == Take3(version.groups) IN
         [i \in 1..3 |-> IF i <= Len(parts) THEN parts[i] ELSE 0]

Abs(x) == IF x < 0 THEN 0 - x ELSE x

\* "Major version match" of _calculate_version_similarity
MajorMatchAny(query_v, result_v) == query_v[1] = result_v[1]
MajorMatch(query_v, result_v) == query_v[1] = result_v[1] /\ query_v[1] > 0

\* the comparison of two normalized versions
CompareVersions(query_v, result_v) ==
    IF query_v = result_v THEN 100
    ELSE IF MajorMatch(query_v, result_v)
    THEN IF query_v[2] = result_v[2]
         THEN 90 - Abs(query_v[3] - result_v[3]) * 5
         ELSE 70 - Abs(query_v[2] - result_v[2]) * 10
    ELSE 0

_calculate_version_similarity(query_version, result_version) ==
    IF \/ query_version.kind \in {"empty", "N/A"}
       \/ result_version.kind \in {"empty", "N/A"}
    THEN 0
    ELSE CompareVersions(_normalize_version(query_version),
                         _normalize_version(result_version))

\* ------------------------------------------------------------ vector index
\* the positions (0-based) of an IndexFlatIP in the order search returns
\* them: by decreasing inner product, the lower position first among equals
RECURSIVE BestFirst(_, _, _)
BestFirst(vecs, q, todo) ==
    IF todo = {} THEN <<>>
    ELSE LET best == CHOOSE p \in todo : \A p2 \in todo :
                        \/ Sim(q, vecs[p + 1]) > Sim(q, vecs[p2 + 1])
                        \/ (Sim(q, vecs[p + 1]) = Sim(q, vecs[p2 + 1]) /\ p <= p2)
         IN <<best>> \o BestFirst(vecs, q, todo \ {best})

\* index.search(query, k): k labels, -1 where the index has no more vectors
FaissSearch(vecs, q, k) ==
    LET order == BestFirst(vecs, q, 0..(Len(vecs) - 1)) IN
    [i \in 1..k |-> IF i <= Len(order) THEN order[i] ELSE -1]

\* list.sort(key=final_score, reverse=True): stable, equal keys keep their order
RECURSIVE ConcatByKeyDesc(_, _)
ConcatByKeyDesc(s, keys) ==
    IF keys = {} THEN <<>>
    ELSE LET k == CHOOSE x \in keys : \A y \in keys : x >= y IN
         SelectSeq(s, LAMBDA c : c.final = k) \o ConcatByKeyDesc(s, keys \ {k})

LeaveUnsorted(s) == s
SortByFinalDesc(s) == ConcatByKeyDesc(s, {s[i].final : i \in DOMAIN s})

\* s[:n]
Take(s, n) == IF n >= Len(s) THEN s ELSE SubSeq(s, 1, n)

\* -------------------------------------------------------------- variables
VARIABLES
    user_data_stores,   \* tenant registry: tenant -> store
    disk,               \* data/user_embeddings/<tenant>/ : file name -> file
    remote,             \* bucket user_embeddings/<tenant>/ : file name -> file
    initialized,        \* FirebaseStorageManager.initialized
    user_data_dir,      \* data/user_data/<fileName>: the copy create_report writes,
                        \* under the one file name every store carries, and who wrote it
    threads,            \* request threads that run a handler step by step: what
                        \* each holds in its local variables and where it is
    cacheHist,          \* per tenant: how the last two undisturbed builds got their vectors
    budget,             \* failures injected and bucket writes by other parties so far
    corpus_csv,         \* rows of data/data_with_application.csv
    emb_dir,            \* data/embedding_outputs: embeddings.npy, faiss_index_<platform>.index
    search_system,      \* the HybridSearch singleton of the server, or not yet created
    pending,            \* the last row of the default CSV was added by create_report
                        \* and embeddings.npy has no vector for it yet
    last                \* the last completed call and what it returned

tenantVars == <<user_data_stores, disk, remote, initialized, user_data_dir, threads, cacheHist, budget>>
corpusVars == <<corpus_csv, emb_dir, search_system, pending>>
vars == <<user_data_stores, disk, remote, initialized, user_data_dir, threads, cacheHist, budget,
          corpus_csv, emb_dir, search_system, pending, last>>

Platforms == <<"android", "ios", "unknown">>
NoIndices == [p \in Range(Platforms) |-> Absent]
NoSystem == [up |-> FALSE, df |-> <<>>, embeddings |-> <<>>, faiss_indices |-> NoIndices,
             n_candidates |-> 0]
EmptyEmbDir == [embeddings |-> Absent, index |-> NoIndices]
NoCorpus ==
    /\ corpus_csv = <<>>
    /\ emb_dir = EmptyEmbDir
    /\ search_system = NoSystem
    /\ pending = FALSE

NoStore == [present |-> FALSE, hasData |-> FALSE, data |-> <<>>, rowCount |-> 0,
            loaded |-> FALSE, embeddingsCreated |-> "unset"]

NoCopy == [ex |-> FALSE, rows |-> <<>>, writers |-> {}]

Writers == {"w1", "w2"}
NoWriter == [kind |-> "append", pc |-> "idle", rec |-> 0, detached |-> FALSE,
             own |-> NoStore, df |-> <<>>, emb |-> <<>>]
NoReader == [pc |-> "idle", ok |-> FALSE, df |-> <<>>, meta |-> <<>>, emb |-> <<>>,
             idx |-> <<>>, loads |-> 0]
NoThreads == [writers |-> [w \in Writers |-> NoWriter], reader |-> NoReader,
              bi_encoder |-> 0, cross_encoder |-> 0]

NoHist == [prev |-> "none", cur |-> "none"]

NoLast == [op |-> "none", t |-> "u1", ok |-> FALSE, raised |-> FALSE, count |-> 0,
           pre |-> EmptyDir, preRemote |-> EmptyBucket,
           buildRan |-> FALSE, buildOk |-> FALSE, fault |-> "none", storeFailed |-> FALSE,
           q |-> 0, app |-> "", platform |-> "", version |-> NoVersion, rversion |-> NoVersion,
           vsim |-> 0, top_k |-> 0, results |-> <<>>, replace |-> FALSE, rec |-> 0,
           language |-> "", k |-> 0, scored |-> <<>>]

\* ----------------------------------------------- cache tier called directly
\* contents a bucket or a directory may hold when the call is made
RemoteRows == <<1, 2>>
LocalRows == <<1>>

InitCache ==
    /\ user_data_stores = [t \in Tenants |-> NoStore]
    /\ initialized \in BOOLEAN
    /\ \E fs \in SUBSET LocalNames :
          disk = [t \in Tenants |->
                    IF t = "u1" THEN [f \in LocalNames |-> IF f \in fs THEN File(LocalRows) ELSE Absent]
                    ELSE EmptyDir]
    /\ \E fs \in SUBSET RemoteNames :
          remote = [t \in Tenants |->
                    IF t = "u1" THEN [f \in RemoteNames |-> IF f \in fs THEN File(RemoteRows) ELSE Absent]
                    ELSE EmptyBucket]
    /\ cacheHist = [t \in Tenants |-> NoHist]
    /\ user_data_dir = NoCopy
    /\ threads = NoThreads
    /\ budget = [faults |-> 0, seeds |-> 0, reports |-> 0]
    /\ NoCorpus
    /\ last = NoLast

CallDownload(t) ==
    \E failAt \in 0..Len(files_to_download) :
        LET r == download_user_artifacts(initialized, disk[t], remote[t], failAt) IN
        /\ disk' = [disk EXCEPT ![t] = r.disk]
        /\ last' = [NoLast EXCEPT !.op = "download", !.t = t, !.ok = r.ok,
                                  !.raised = r.raised, !.count = r.count,
                                  !.pre = disk[t], !.preRemote = remote[t]]
        /\ UNCHANGED <<user_data_stores, remote, initialized, user_data_dir, threads, cacheHist, budget>>
        /\ UNCHANGED corpusVars

CallUpload(t) ==
    \E failAt \in 0..Len(files_to_upload) :
        LET r == upload_user_artifacts(initialized, disk[t], remote[t], failAt) IN
        /\ remote' = [remote EXCEPT ![t] = r.remote]
        /\ last' = [NoLast EXCEPT !.op = "upload", !.t = t, !.ok = r.ok,
                                  !.raised = r.raised, !.count = r.count,
                                  !.pre = disk[t], !.preRemote = remote[t]]
        /\ UNCHANGED <<user_data_stores, disk, initialized, user_data_dir, threads, cacheHist, budget>>
        /\ UNCHANGED corpusVars

CallCheck(t) ==
    \E raises \in BOOLEAN :
        /\ last' = [NoLast EXCEPT !.op = "check", !.t = t,
                                  !.ok = check_artifacts_exist(initialized, remote[t], raises),
                                  !.raised = raises,
                                  !.pre = disk[t], !.preRemote = remote[t]]
        /\ UNCHANGED <<user_data_stores, disk, remote, initialized, user_data_dir, threads, cacheHist, budget>>
        /\ UNCHANGED corpusVars

NextCache ==
    \/ CallDownload("u1")
    \/ CallUpload("u1")
    \/ CallCheck("u1")

SpecCache == InitCache /\ [][NextCache]_vars

\* C9: download returns True only when every file of the artifact set was
\* transferred; a partial remote set or a transfer that raises gives False.
C9_DownloadAllOrFalse ==
    last.op = "download" =>
        /\ last.ok => \A i \in DOMAIN files_to_download :
                         /\ last.preRemote[files_to_download[i]].ex
                         /\ disk[last.t][files_to_download[i]] = last.preRemote[files_to_download[i]]
        /\ (\E i \in DOMAIN files_to_download : ~last.preRemote[files_to_download[i]].ex) => ~last.ok
        /\ last.raised => ~last.ok

\* a download of a complete remote set that replaced local files and returned True
C9_Witness ==
    /\ last.op = "download"
    /\ last.ok
    /\ last.pre # disk[last.t]

\* C10: upload returns True only when every file of the artifact set was
\* uploaded; a file missing locally or a transfer that raises gives False.
C10_UploadAllOrFalse ==
    last.op = "upload" =>
        /\ last.ok => \A i \in DOMAIN files_to_upload :
                         /\ last.pre[files_to_upload[i]].ex
                         /\ remote[last.t][files_to_upload[i]] = last.pre[files_to_upload[i]]
        /\ (\E i \in DOMAIN files_to_upload : ~last.pre[files_to_upload[i]].ex) => ~last.ok
        /\ last.raised => ~last.ok


\* ------------------------------------------------------ embedding pipeline
\* where one call of the pipeline is made to fail: the exists check raising,
\* transfer dl / up raising, or one step of the local generation raising
NoFault == [chk |-> FALSE, dl |-> 0, gen |-> "none", up |-> 0]
GenFailPoints == {"encode", "save_embeddings", "index_add", "write_index", "save_metadata"}
\* the transfers of a pipeline run that are made to raise: the first, the third
TransferFaults == {1, 3}
Faults ==
    {NoFault} \cup {[NoFault EXCEPT !.chk = TRUE]}
    \cup {[NoFault EXCEPT !.dl = i] : i \in TransferFaults}
    \cup {[NoFault EXCEPT !.gen = g] : g \in GenFailPoints}
    \cup {[NoFault EXCEPT !.up = i] : i \in TransferFaults}

\* create_embeddings: one vector per row, in row order, saved to embeddings.npy
create_embeddings(d, df, fx) ==
    IF fx.gen \in {"encode", "save_embeddings"}
    THEN [ok |-> FALSE, disk |-> d]
    ELSE [ok |-> TRUE, disk |-> [d EXCEPT !["embeddings.npy"] = File(df)]]

\* the file create_faiss_index writes
index_path == "faiss_index.index"

\* create_faiss_index: every vector added in order, written to index_path
create_faiss_index(d, embeddings, fx) ==
    IF fx.gen \in {"index_add", "write_index"}
    THEN [ok |-> FALSE, disk |-> d]
    ELSE [ok |-> TRUE, disk |-> [d EXCEPT ![index_path] = File(embeddings)]]

\* save_metadata: num_records / recordCount of df, written to metadata.json
save_metadata(d, df, fx) ==
    IF fx.gen = "save_metadata"
    THEN [ok |-> FALSE, disk |-> d]
    ELSE [ok |-> TRUE, disk |-> [d EXCEPT !["metadata.json"] = File(df)]]

\* what process returns once the artifacts are written, given what the
\* upload returned: an upload that failed is logged and nothing more
ProcessResultStrict(upload_success) == upload_success
ProcessResult(upload_success) == TRUE

\* the kind of failure a pipeline run was made to meet
FaultKind(fx) ==
    IF fx = NoFault THEN "none" ELSE IF fx.gen # "none" THEN "gen" ELSE "store"

\* process, from "GENERATE NEW EMBEDDINGS" on; any exception returns False
Generate(d, rem, df, fx, cache) ==
    LET e == create_embeddings(d, df, fx) IN
    IF ~e.ok THEN [ok |-> FALSE, disk |-> e.disk, remote |-> rem, embedded |-> TRUE,
                   hit |-> FALSE, uploaded |-> FALSE, fired |-> TRUE]
    ELSE LET x == create_faiss_index(e.disk, df, fx) IN
    IF ~x.ok THEN [ok |-> FALSE, disk |-> x.disk, remote |-> rem, embedded |-> TRUE,
                   hit |-> FALSE, uploaded |-> FALSE, fired |-> TRUE]
    ELSE LET m == save_metadata(x.disk, df, fx) IN
    IF ~m.ok THEN [ok |-> FALSE, disk |-> m.disk, remote |-> rem, embedded |-> TRUE,
                   hit |-> FALSE, uploaded |-> FALSE, fired |-> TRUE]
    ELSE IF cache
    THEN LET u == upload_user_artifacts(initialized, m.disk, rem, fx.up) IN
         [ok |-> ProcessResult(u.ok), disk |-> m.disk, remote |-> u.remote, embedded |-> TRUE,
          hit |-> FALSE, uploaded |-> u.ok, fired |-> u.raised]
    ELSE [ok |-> TRUE, disk |-> m.disk, remote |-> rem, embedded |-> TRUE,
          hit |-> FALSE, uploaded |-> FALSE, fired |-> FALSE]

\* `if download_success:` of process: a complete download ends the build
SkipGenerationNever(download_success) == FALSE
SkipGeneration(download_success) == download_success

\* UserEmbeddingPipeline.process(df): cache check, download, else generate.
\* fired: the failure asked for by fx did happen in this run
process(d, rem, df, fx) ==
    LET cache == initialized IN
    IF cache /\ check_artifacts_exist(initialized, rem, fx.chk)
    THEN LET dl == download_user_artifacts(initialized, d, rem, fx.dl) IN
         IF SkipGeneration(dl.ok)
         THEN [ok |-> TRUE, disk |-> dl.disk, remote |-> rem, embedded |-> FALSE,
               hit |-> TRUE, uploaded |-> FALSE, fired |-> FALSE]
         ELSE LET g == Generate(dl.disk, rem, df, fx, cache) IN
              [g EXCEPT !.fired = @ \/ dl.raised]
    ELSE LET g == Generate(d, rem, df, fx, cache) IN
         [g EXCEPT !.fired = @ \/ (cache /\ fx.chk)]

\* the run r of process met a failure of the remote store: the exists check
\* raised, the set was there and its download did not return True, or the
\* upload did not return True
StoreFailed(rem, fx, r) ==
    /\ initialized
    /\ \/ fx.chk
       \/ check_artifacts_exist(initialized, rem, FALSE) /\ ~r.hit
       \/ r.ok /\ r.embedded /\ ~r.uploaded

\* how a build enters the per-tenant cache history: only builds made with the
\* cache enabled and no store failure count; anything else restarts the history
HistAfter(h, r, fx) ==
    LET kind == IF r.ok /\ r.hit THEN "hit"
                ELSE IF r.ok /\ r.embedded /\ r.uploaded THEN "gen"
                ELSE "none"
    IN IF initialized /\ ~fx.chk /\ fx.dl = 0 /\ fx.up = 0 /\ kind # "none"
       THEN [prev |-> h.cur, cur |-> kind]
       ELSE NoHist

\* --------------------------------------------------------- tenant registry
\* DataFrame.to_csv / pd.read_csv of a dataset: one line per row, in order
to_csv(df) == File(df)
read_csv(f) == f.rows

\* Path(DATA_BASE_DIR) / 'user_embeddings' / user_id: the directory of a tenant
SharedEmbeddingsDir(user_id) == "u1"
user_embeddings_dir(user_id) == user_id

\* 'loaded': df is not None
StoreLoadedAlways(has_df) == TRUE
StoreLoaded(has_df) == has_df

\* get_user_data_store: the store of the registry, or one rebuilt from disk
\* and inserted; loads is false when json.load or pd.read_csv raises
get_user_data_store_loading(stores, d, user_id, loads) ==
    IF stores[user_id].present THEN stores[user_id]
    ELSE IF d["metadata.json"].ex /\ loads
    THEN LET has == d["data.csv"].ex IN
         [present |-> TRUE, hasData |-> has,
          data |-> IF has THEN read_csv(d["data.csv"]) ELSE <<>>,
          rowCount |-> Len(d["metadata.json"].rows),
          loaded |-> StoreLoaded(has), embeddingsCreated |-> "true"]
    ELSE [NoStore EXCEPT !.present = TRUE]

\* the same when the files on disk are readable
get_user_data_store(stores, d, user_id) ==
    get_user_data_store_loading(stores, d, user_id, TRUE)

\* GET /api/data_status: looks the store up and reports it; the files read
\* for a tenant that is not in the registry load or raise
data_status(user_id) ==
    \E loads \in BOOLEAN :
        LET store == get_user_data_store_loading(user_data_stores, disk[user_embeddings_dir(user_id)],
                                                 user_id, loads)
        IN
        /\ ~loads => ~user_data_stores[user_id].present /\ disk[user_embeddings_dir(user_id)]["metadata.json"].ex
        /\ user_data_stores' = [user_data_stores EXCEPT ![user_id] = store]
        /\ last' = [NoLast EXCEPT !.op = "data_status", !.t = user_id, !.ok = store.loaded,
                                  !.raised = ~loads, !.count = store.rowCount]
        /\ UNCHANGED <<disk, remote, initialized, user_data_dir, threads, cacheHist, budget>>
        /\ UNCHANGED corpusVars

\* ---------------------------------------------------------------- handlers
UploadSets ==
    {s \in UNION {[1..n -> RecIds] : n \in 1..MaxUpload} :
        \A i, j \in DOMAIN s : i # j => s[i] # s[j]}

InitTenant ==
    /\ user_data_stores = [t \in Tenants |-> NoStore]
    /\ disk = [t \in Tenants |-> EmptyDir]
    /\ remote = [t \in Tenants |-> EmptyBucket]
    /\ initialized \in BOOLEAN
    /\ cacheHist = [t \in Tenants |-> NoHist]
    /\ user_data_dir = NoCopy
    /\ threads = NoThreads
    /\ budget = [faults |-> 0, seeds |-> 0, reports |-> 0]
    /\ NoCorpus
    /\ last = NoLast

\* POST /api/upload_data with a JSON body carrying the dataset df, under the
\* failures fx
upload_request(user_id, df, fx) ==
        LET store0 == [present |-> TRUE, hasData |-> TRUE, data |-> df, rowCount |-> Len(df),
                       loaded |-> TRUE, embeddingsCreated |-> "unset"]
            r == process(disk[user_embeddings_dir(user_id)], remote[user_id], df, fx)
            d2 == IF r.ok THEN [r.disk EXCEPT !["data.csv"] = to_csv(df)] ELSE r.disk
            store1 == [store0 EXCEPT !.embeddingsCreated = IF r.ok THEN "true" ELSE "false"]
        IN
        /\ (fx # NoFault => budget.faults < MaxFaults /\ r.fired)
        /\ user_data_stores' = [user_data_stores EXCEPT ![user_id] = store1]
        /\ disk' = [disk EXCEPT ![user_embeddings_dir(user_id)] = d2]
        /\ remote' = [remote EXCEPT ![user_id] = r.remote]
        /\ cacheHist' = [cacheHist EXCEPT ![user_id] = HistAfter(cacheHist[user_id], r, fx)]
        /\ last' = [NoLast EXCEPT !.op = "upload_data", !.t = user_id, !.ok = TRUE,
                                  !.buildRan = TRUE, !.buildOk = r.ok,
                                  !.fault = FaultKind(fx),
                                  !.storeFailed = StoreFailed(remote[user_id], fx, r)]
        /\ budget' = [budget EXCEPT !.faults = IF fx # NoFault THEN @ + 1 ELSE @]
        /\ UNCHANGED <<initialized, user_data_dir, threads>>
        /\ UNCHANGED corpusVars

\* POST /api/upload_data with a JSON body
upload_data(user_id, faults) ==
    \E df \in UploadSets, fx \in faults : upload_request(user_id, df, fx)

\* POST /api/upload_data as multipart form data: the store is set, then the
\* handler reads the unbound name `data` and answers 500
upload_data_form(user_id) ==
    \E df \in UploadSets :
        LET store0 == [present |-> TRUE, hasData |-> TRUE, data |-> df, rowCount |-> Len(df),
                       loaded |-> TRUE, embeddingsCreated |-> "unset"]
        IN
        /\ user_data_stores' = [user_data_stores EXCEPT ![user_id] = store0]
        /\ last' = [NoLast EXCEPT !.op = "upload_data_form", !.t = user_id, !.ok = FALSE,
                                  !.raised = TRUE]
        /\ UNCHANGED <<disk, remote, initialized, user_data_dir, threads, cacheHist, budget>>
        /\ UNCHANGED corpusVars

\* rows left after the rows whose summary contains old_report_summary are dropped
RemoveMatching(df, old) == SelectSeq(df, LAMBDA x : x # old)

\* POST /api/create_report for a tenant whose store is loaded, with the new
\* record and the summary of the report to replace; old = 0 means
\* replace_report is not set
create_request(user_id, new, old, fx) ==
        LET store == get_user_data_store(user_data_stores, disk[user_embeddings_dir(user_id)], user_id)
            kept == IF old # 0 THEN RemoveMatching(store.data, old) ELSE store.data
            df == kept \o <<new>>
            d1 == [disk[user_embeddings_dir(user_id)] EXCEPT !["data.csv"] = to_csv(df)]
            df2 == read_csv(d1["data.csv"])
            store1 == [store EXCEPT !.data = df2, !.rowCount = Len(df2)]
            r == process(d1, remote[user_id], df2, fx)
        IN
        /\ store.loaded /\ store.hasData
        /\ old = 0 \/ old \in Range(store.data)
        /\ Len(df) <= MaxRows
        /\ (fx # NoFault => budget.faults < MaxFaults /\ r.fired)
        /\ user_data_stores' = [user_data_stores EXCEPT ![user_id] = store1]
        /\ disk' = [disk EXCEPT ![user_embeddings_dir(user_id)] = r.disk]
        /\ remote' = [remote EXCEPT ![user_id] = r.remote]
        /\ cacheHist' = [cacheHist EXCEPT ![user_id] = HistAfter(cacheHist[user_id], r, fx)]
        /\ last' = [NoLast EXCEPT !.op = "create_report", !.t = user_id, !.ok = TRUE,
                                  !.buildRan = TRUE, !.buildOk = r.ok,
                                  !.fault = FaultKind(fx),
                                  !.storeFailed = StoreFailed(remote[user_id], fx, r),
                                  !.replace = (old # 0), !.rec = new, !.count = Len(store.data)]
        /\ budget' = [budget EXCEPT !.faults = IF fx # NoFault THEN @ + 1 ELSE @]
        /\ user_data_dir' = [ex |-> TRUE, rows |-> df,
                             writers |-> user_data_dir.writers \cup {user_id}]
        /\ UNCHANGED <<initialized, threads>>
        /\ UNCHANGED corpusVars

\* POST /api/create_report
create_report(user_id, faults) ==
    \E new \in RecIds, old \in {0} \cup RecIds, fx \in faults :
        create_request(user_id, new, old, fx)

\* POST /api/update_selected_columns: the store is looked up, its column
\* lists are replaced and metadata.json, when present, is rewritten with them
update_selected_columns(user_id) ==
    LET store == get_user_data_store(user_data_stores, disk[user_embeddings_dir(user_id)], user_id) IN
    /\ user_data_stores' = [user_data_stores EXCEPT ![user_id] = store]
    /\ last' = [NoLast EXCEPT !.op = "update_selected_columns", !.t = user_id, !.ok = TRUE]
    /\ UNCHANGED <<disk, remote, initialized, user_data_dir, threads, cacheHist, budget>>
    /\ UNCHANGED corpusVars

\* POST /api/extract_features for a tenant whose store is loaded: columns are
\* added to the dataset of the store and the dataset file is rewritten from it
extract_features_endpoint(user_id) ==
    LET store == get_user_data_store(user_data_stores, disk[user_embeddings_dir(user_id)], user_id) IN
    /\ store.loaded
    /\ user_data_stores' = [user_data_stores EXCEPT ![user_id] = store]
    /\ disk' = [disk EXCEPT ![user_embeddings_dir(user_id)]["data.csv"] = to_csv(store.data)]
    /\ last' = [NoLast EXCEPT !.op = "extract_features", !.t = user_id, !.ok = TRUE]
    /\ UNCHANGED <<remote, initialized, user_data_dir, threads, cacheHist, budget>>
    /\ UNCHANGED corpusVars

\* ------------------------------------------------------ tenant search
rerank_k == 50
default_top_k == 10
max_top_k == 50

\* load_user_data: metadata, vector array and index must all load
load_user_data(d) == d["metadata.json"].ex /\ d["embeddings.npy"].ex /\ d[index_path].ex

\* df.iloc[idx] for an integer idx that passed `idx < len(df)`: a negative
\* label counts from the end
iloc(df, idx) == IF idx >= 0 THEN df[idx + 1] ELSE df[Len(df) + idx + 1]

\* stage 1 of UserHybridSearch.search: the hits of the index kept as candidates
Candidates(df, hits) ==
    LET kept == SelectSeq(hits, LAMBDA idx : idx < Len(df)) IN
    [i \in DOMAIN kept |-> [index |-> kept[i], rec |-> iloc(df, kept[i])]]

\* one formatted result of the tenant search: the final score is the score
\* of the re-ranker (or of the text match), in ten-thousandths, and the three
\* metadata fields are the literals the code writes
UserResult(index, rec, score) ==
    [index |-> index, rec |-> rec, cross_encoder_score |-> score,
     version_similarity |-> 100, platform_match |-> TRUE, language_match |-> TRUE,
     final |-> 10000 * score]

\* stage 2 of UserHybridSearch.search: the candidates with their scores, in
\* the order of stage 1
UserScored(d, q, df) ==
    LET hits == FaissSearch(d[index_path].rows, q, rerank_k)
        candidates == Candidates(df, hits)
    IN  [i \in DOMAIN candidates |->
            UserResult(candidates[i].index, candidates[i].rec, CE(q, candidates[i].rec))]

\* UserHybridSearch.search(query, df, top_k); any exception returns []
user_hybrid_search(d, q, df, top_k, ceFails) ==
    IF ~load_user_data(d) THEN <<>>
    ELSE LET scored == UserScored(d, q, df)
         IN IF Len(scored) > 0 /\ ceFails THEN <<>>
            ELSE Take(SortByFinalDesc(scored), top_k)

\* the fallback of search_custom_data: rows whose text score passes 1.0
RECURSIVE TextMatches(_, _, _)
TextMatches(df, q, i) ==
    IF i > Len(df) THEN <<>>
    ELSE (IF Txt(q, df[i]) > 1
          THEN <<UserResult(i - 1, df[i], Txt(q, df[i]))>>
          ELSE <<>>) \o TextMatches(df, q, i + 1)

\* search_custom_data: hybrid search, text search when it returns nothing
search_custom_data(d, q, df, top_k, ceFails) ==
    LET results == user_hybrid_search(d, q, df, top_k, ceFails) IN
    IF Len(results) > 0 THEN results
    ELSE Take(SortByFinalDesc(TextMatches(df, q, 1)), top_k)

\* the list search_custom_data sorted to obtain its results
SortedList(d, q, df, top_k, ceFails) ==
    IF Len(user_hybrid_search(d, q, df, top_k, ceFails)) > 0
    THEN UserScored(d, q, df)
    ELSE TextMatches(df, q, 1)

\* "Validate top_k" of search_reports
ValidateTopK(top_k) == IF top_k < 1 \/ top_k > max_top_k THEN default_top_k ELSE top_k

Queries == RecIds
AppFilters == {"", "BiP"}
TopKInputs == {0, 2, 50, 51}

\* POST /api/search with one request body; the application filter is read
\* from the request and echoed
search_request(user_id, q, application, top_k, ceFails) ==
        LET store == get_user_data_store(user_data_stores, disk[user_embeddings_dir(user_id)], user_id)
            served == store.loaded /\ store.hasData
            results == IF served
                       THEN search_custom_data(disk[user_embeddings_dir(user_id)], q, store.data,
                                               ValidateTopK(top_k), ceFails)
                       ELSE <<>>
        IN
        /\ user_data_stores' = [user_data_stores EXCEPT ![user_id] = store]
        /\ last' = [NoLast EXCEPT !.op = "search", !.t = user_id, !.ok = served,
                                  !.q = q, !.app = application, !.top_k = top_k,
                                  !.results = results, !.raised = ceFails,
                                  !.k = ValidateTopK(top_k),
                                  !.scored = IF served
                                             THEN SortedList(disk[user_embeddings_dir(user_id)], q, store.data,
                                                             ValidateTopK(top_k), ceFails)
                                             ELSE <<>>]
        /\ UNCHANGED <<disk, remote, initialized, user_data_dir, threads, cacheHist, budget>>
        /\ UNCHANGED corpusVars

\* POST /api/search
search_reports(user_id) ==
    \E q \in Queries, application \in AppFilters, top_k \in TopKInputs, ceFails \in BOOLEAN :
        search_request(user_id, q, application, top_k, ceFails)

\* the server process is restarted: the registry is empty again, files stay
Restart ==
    /\ user_data_stores' = [t \in Tenants |-> NoStore]
    /\ search_system' = NoSystem
    /\ last' = NoLast
    /\ UNCHANGED <<disk, remote, initialized, user_data_dir, threads, cacheHist, budget>>
    /\ UNCHANGED <<corpus_csv, emb_dir, pending>>

\* the dataset the other writer of the bucket built its artifact set from
SeedRows == <<1>>

\* another writer of the bucket stores an artifact set for the tenant: the
\* complete one, or the one without the dataset file
RemoteSeed(user_id) ==
    /\ budget.seeds < MaxSeeds
    /\ \E withData \in BOOLEAN :
          remote' = [remote EXCEPT ![user_id] =
                       [f \in RemoteNames |->
                          IF f = "data.csv" /\ ~withData THEN Absent ELSE File(SeedRows)]]
    /\ cacheHist' = [cacheHist EXCEPT ![user_id] = NoHist]
    /\ last' = [NoLast EXCEPT !.op = "seed", !.t = user_id]
    /\ budget' = [budget EXCEPT !.seeds = @ + 1]
    /\ UNCHANGED <<user_data_stores, disk, initialized, user_data_dir, threads>>
    /\ UNCHANGED corpusVars

\* the tenants the handlers are called for
Served == {"u1"}

Next ==
    \/ \E t \in Served : upload_data(t, Faults)
    \/ \E t \in Served : upload_data_form(t)
    \/ \E t \in Served : create_report(t, Faults)
    \/ \E t \in Served : RemoteSeed(t)
    \/ Restart

Spec == InitTenant /\ [][Next]_vars

NextSearch ==
    \/ \E t \in Served : upload_data(t, {NoFault})
    \/ \E t \in Served : create_report(t, {NoFault})
    \/ \E t \in Served : search_reports(t)
    \/ Restart

SpecSearch == InitTenant /\ [][NextSearch]_vars

\* uploads, restarts and look-ups of the registry
NextRegistry ==
    \/ \E t \in Served : upload_data(t, Faults)
    \/ \E t \in Served : RemoteSeed(t)
    \/ \E t \in Served : data_status(t)
    \/ Restart

SpecRegistry == InitTenant /\ [][NextRegistry]_vars

\* two tenants served side by side: the second one uploads, appends to and
\* searches one fixed dataset
Bystander == "u2"
BystanderRows == <<1>>

NextIsolation ==
    \/ \E t \in Served : upload_data(t, {NoFault})
    \/ \E t \in Served : create_report(t, {NoFault})
    \/ \E t \in Served : update_selected_columns(t)
    \/ \E t \in Served : extract_features_endpoint(t)
    \/ \E t \in Served, q \in Queries : search_request(t, q, "", 2, FALSE)
    \/ upload_request(Bystander, BystanderRows, NoFault)
    \/ create_request(Bystander, 1, 0, NoFault)
    \/ search_request(Bystander, 1, "", 2, FALSE)

SpecIsolation == InitTenant /\ [][NextIsolation]_vars

\* ------------------------------------------------------ request threads
\* app.run(threaded=True): each request runs on its own thread, and no
\* handler takes a lock. Two writers and one searching reader work on one
\* tenant whose dataset BaseRows is built; every step below is one statement
\* (or one call that touches one shared object or file) of the handler
MaxSearches == 2
Worker == "u1"
BaseRows == <<1>>
RebuildRows == <<3>>
WriterRec == [w \in Writers |-> IF w = "w1" THEN 2 ELSE 3]

BuiltDir(rows) ==
    [f \in LocalNames |-> IF f = "faiss_index.bin" THEN Absent ELSE File(rows)]

InitThreads ==
    /\ user_data_stores =
          [t \in Tenants |->
              IF t = Worker
              THEN [present |-> TRUE, hasData |-> TRUE, data |-> BaseRows,
                    rowCount |-> Len(BaseRows), loaded |-> TRUE,
                    embeddingsCreated |-> "true"]
              ELSE NoStore]
    /\ disk = [t \in Tenants |-> IF t = Worker THEN BuiltDir(BaseRows) ELSE EmptyDir]
    /\ remote = [t \in Tenants |-> EmptyBucket]
    /\ initialized = FALSE
    /\ user_data_dir = NoCopy
    /\ \E k \in {"append", "rebuild"} :
          threads = [NoThreads EXCEPT
                        !.writers = [w \in Writers |->
                            [NoWriter EXCEPT
                                !.pc = "start",
                                !.kind = IF w = "w1" THEN "append" ELSE k,
                                !.rec = WriterRec[w],
                                !.df = IF w # "w1" /\ k = "rebuild"
                                       THEN RebuildRows ELSE <<>>]]]
    /\ cacheHist = [t \in Tenants |-> NoHist]
    /\ budget = [faults |-> 0, seeds |-> 0, reports |-> 0]
    /\ NoCorpus
    /\ last = NoLast

\* the dict a writer holds in user_store: the one of the registry, or the one
\* it took from the registry before an upload replaced the entry
StoreOf(w) ==
    IF threads.writers[w].detached THEN threads.writers[w].own
    ELSE user_data_stores[Worker]

ThreadFrame == UNCHANGED <<remote, initialized, cacheHist, budget, corpusVars, last>>

\* an assignment to a key of user_store by writer w, which then moves to pc
StoreAssign(w, store, pc) ==
    IF threads.writers[w].detached
    THEN /\ threads' = [threads EXCEPT !.writers[w].own = store, !.writers[w].pc = pc]
         /\ UNCHANGED user_data_stores
    ELSE /\ user_data_stores' = [user_data_stores EXCEPT ![Worker] = store]
         /\ threads' = [threads EXCEPT !.writers[w].pc = pc]

\* create_report: user_store = get_user_data_store(user_id)
append_get(w) ==
    /\ threads.writers[w].kind = "append"
    /\ threads.writers[w].pc = "start"
    /\ user_data_stores[Worker].loaded /\ user_data_stores[Worker].hasData
    /\ threads' = [threads EXCEPT !.writers[w].pc = "concat"]
    /\ UNCHANGED <<user_data_stores, disk, user_data_dir>>
    /\ ThreadFrame

\* create_report: pd.concat([user_store['data'], new_row]) is evaluated
append_concat(w) ==
    /\ threads.writers[w].pc = "concat"
    /\ threads' = [threads EXCEPT !.writers[w].pc = "assign",
                                  !.writers[w].df = StoreOf(w).data \o <<threads.writers[w].rec>>]
    /\ UNCHANGED <<user_data_stores, disk, user_data_dir>>
    /\ ThreadFrame

\* create_report: user_store['data'] = <the concatenation>; rowCount
append_assign(w) ==
    /\ threads.writers[w].pc = "assign"
    /\ StoreAssign(w, [StoreOf(w) EXCEPT !.data = threads.writers[w].df,
                                         !.rowCount = Len(threads.writers[w].df)], "to_csv")
    /\ UNCHANGED <<disk, user_data_dir>>
    /\ ThreadFrame

\* create_report: user_store['data'].to_csv to user_data/ and to data.csv
append_to_csv(w) ==
    /\ threads.writers[w].pc = "to_csv"
    /\ disk' = [disk EXCEPT ![user_embeddings_dir(Worker)]["data.csv"] = to_csv(StoreOf(w).data)]
    /\ user_data_dir' = [ex |-> TRUE, rows |-> StoreOf(w).data,
                         writers |-> user_data_dir.writers \cup {Worker}]
    /\ threads' = [threads EXCEPT !.writers[w].pc = "read_csv"]
    /\ UNCHANGED user_data_stores
    /\ ThreadFrame

\* create_report: user_store['data'] = pd.read_csv(...); rowCount;
\* set_user_data_store(user_id, user_store) puts the dict of w in the registry
append_read_csv(w) ==
    /\ threads.writers[w].pc = "read_csv"
    /\ LET df == read_csv(disk[user_embeddings_dir(Worker)]["data.csv"]) IN
       user_data_stores' = [user_data_stores EXCEPT ![Worker] =
                               [StoreOf(w) EXCEPT !.data = df, !.rowCount = Len(df)]]
    /\ threads' = [threads EXCEPT !.writers[w].pc = "embed", !.writers[w].detached = FALSE,
                                  !.writers[w].own = NoStore]
    /\ UNCHANGED <<disk, user_data_dir>>
    /\ ThreadFrame

\* upload_data: set_user_data_store(user_id, <new dict>); a writer that holds
\* the dict replaced here keeps it
rebuild_set(w) ==
    /\ threads.writers[w].kind = "rebuild"
    /\ threads.writers[w].pc = "start"
    /\ user_data_stores' = [user_data_stores EXCEPT ![Worker] =
          [present |-> TRUE, hasData |-> TRUE, data |-> threads.writers[w].df,
           rowCount |-> Len(threads.writers[w].df), loaded |-> TRUE,
           embeddingsCreated |-> "unset"]]
    /\ threads' = [threads EXCEPT !.writers =
          [v \in Writers |->
              IF v = w THEN [threads.writers[v] EXCEPT !.pc = "embed"]
              ELSE IF /\ threads.writers[v].pc \in {"concat", "assign", "to_csv", "read_csv"}
                      /\ ~threads.writers[v].detached
                   THEN [threads.writers[v] EXCEPT !.detached = TRUE,
                                                    !.own = user_data_stores[Worker]]
                   ELSE threads.writers[v]]]
    /\ UNCHANGED <<disk, user_data_dir>>
    /\ ThreadFrame

\* create_user_embeddings(user_id, df): a new pipeline loads its model,
\* encodes df and saves embeddings.npy; create_report passes user_store['data']
build_embeddings(w) ==
    /\ threads.writers[w].pc = "embed"
    /\ LET df == IF threads.writers[w].kind = "append"
                 THEN user_data_stores[Worker].data ELSE threads.writers[w].df
       IN /\ disk' = [disk EXCEPT ![user_embeddings_dir(Worker)]["embeddings.npy"] = File(df)]
          /\ threads' = [threads EXCEPT !.writers[w].pc = "index", !.writers[w].df = df,
                                        !.writers[w].emb = df,
                                        !.bi_encoder = @ + 1]
    /\ UNCHANGED <<user_data_stores, user_data_dir>>
    /\ ThreadFrame

\* create_faiss_index(embeddings): the index of the vectors just computed
build_index(w) ==
    /\ threads.writers[w].pc = "index"
    /\ disk' = [disk EXCEPT ![user_embeddings_dir(Worker)][index_path] =
                                File(threads.writers[w].emb)]
    /\ threads' = [threads EXCEPT !.writers[w].pc = "metadata"]
    /\ UNCHANGED <<user_data_stores, user_data_dir>>
    /\ ThreadFrame

\* save_metadata(df, ...); create_report is finished after it
build_metadata(w) ==
    /\ threads.writers[w].pc = "metadata"
    /\ disk' = [disk EXCEPT ![user_embeddings_dir(Worker)]["metadata.json"] =
                                File(threads.writers[w].df)]
    /\ threads' = [threads EXCEPT !.writers[w].pc =
                      IF threads.writers[w].kind = "append" THEN "done" ELSE "finish"]
    /\ UNCHANGED <<user_data_stores, user_data_dir>>
    /\ ThreadFrame

\* upload_data after a successful build: df.to_csv(data.csv), then the store
\* of the registry is marked
rebuild_finish(w) ==
    /\ threads.writers[w].pc = "finish"
    /\ disk' = [disk EXCEPT ![user_embeddings_dir(Worker)]["data.csv"] =
                                to_csv(threads.writers[w].df)]
    /\ user_data_stores' = [user_data_stores EXCEPT ![Worker].embeddingsCreated = "true"]
    /\ threads' = [threads EXCEPT !.writers[w].pc = "done"]
    /\ UNCHANGED user_data_dir
    /\ ThreadFrame

\* search_reports up to search_user_data: the dataset of the store is passed
\* to a new UserHybridSearch
search_get ==
    /\ threads.reader.pc = "idle"
    /\ threads.reader.loads < MaxSearches
    /\ user_data_stores[Worker].loaded /\ user_data_stores[Worker].hasData
    /\ threads' = [threads EXCEPT !.reader = [NoReader EXCEPT
                                     !.pc = "load_models",
                                     !.loads = threads.reader.loads + 1,
                                     !.df = user_data_stores[Worker].data]]
    /\ UNCHANGED <<user_data_stores, disk, user_data_dir>>
    /\ ThreadFrame

\* UserHybridSearch.load_models on the new object: both models are loaded
search_load_models ==
    /\ threads.reader.pc = "load_models"
    /\ threads' = [threads EXCEPT !.reader.pc = "load_metadata",
                                  !.bi_encoder = @ + 1, !.cross_encoder = @ + 1]
    /\ UNCHANGED <<user_data_stores, disk, user_data_dir>>
    /\ ThreadFrame

\* load_user_data reads metadata.json, then embeddings.npy, then the index
search_load_metadata ==
    /\ threads.reader.pc = "load_metadata"
    /\ threads' = [threads EXCEPT
                      !.reader.pc = "load_embeddings",
                      !.reader.meta = disk[user_embeddings_dir(Worker)]["metadata.json"].rows]
    /\ UNCHANGED <<user_data_stores, disk, user_data_dir>>
    /\ ThreadFrame

search_load_embeddings ==
    /\ threads.reader.pc = "load_embeddings"
    /\ threads' = [threads EXCEPT
                      !.reader.pc = "load_index",
                      !.reader.emb = disk[user_embeddings_dir(Worker)]["embeddings.npy"].rows]
    /\ UNCHANGED <<user_data_stores, disk, user_data_dir>>
    /\ ThreadFrame

search_load_index ==
    /\ threads.reader.pc = "load_index"
    /\ threads' = [threads EXCEPT
                      !.reader.pc = "idle",
                      !.reader.ok = TRUE,
                      !.reader.idx = disk[user_embeddings_dir(Worker)][index_path].rows]
    /\ UNCHANGED <<user_data_stores, disk, user_data_dir>>
    /\ ThreadFrame

NextThreads ==
    \/ \E w \in Writers : append_get(w)
    \/ \E w \in Writers : append_concat(w)
    \/ \E w \in Writers : append_assign(w)
    \/ \E w \in Writers : append_to_csv(w)
    \/ \E w \in Writers : append_read_csv(w)
    \/ \E w \in Writers : rebuild_set(w)
    \/ \E w \in Writers : build_embeddings(w)
    \/ \E w \in Writers : build_index(w)
    \/ \E w \in Writers : build_metadata(w)
    \/ \E w \in Writers : rebuild_finish(w)
    \/ search_get
    \/ search_load_models
    \/ search_load_metadata
    \/ search_load_embeddings
    \/ search_load_index

SpecThreads == InitThreads /\ [][NextThreads]_vars

\* ------------------------------------------------------ default corpus
\* hybrid_search.py over data/data_with_application.csv and
\* data/embedding_outputs; the corpus has no language column, so load_data
\* sets Language to None and search ignores a language filter
MaxCorpus == 3
CorpusIds == 1..MaxCorpus
InitialCorpora == {<<2>>, <<3>>, <<1, 2>>, <<1, 3>>}
NewReports == {2, 3}
n_candidates == 200

\* _extract_platform of the record's Component
Platform(r) == Platforms[(((r - 1) \div 2) % 3) + 1]

ntotal(ix) == IF ix.ex THEN Len(ix.rows) ELSE 0
SumNtotal(indices) ==
    ntotal(indices["android"]) + ntotal(indices["ios"]) + ntotal(indices["unknown"])

\* embeddings[df['Platform'] == plat]
RECURSIVE Masked(_, _, _, _)
Masked(df, embeddings, plat, i) ==
    IF i > Len(df) THEN <<>>
    ELSE (IF Platform(df[i]) = plat THEN <<embeddings[i]>> ELSE <<>>)
         \o Masked(df, embeddings, plat, i + 1)

\* a boolean mask of another length than the array raises; a platform with no
\* rows gets no index
create_faiss_indices(df, embeddings) ==
    IF Len(embeddings) # Len(df)
    THEN [raised |-> TRUE, indices |-> NoIndices]
    ELSE [raised |-> FALSE,
          indices |-> [p \in Range(Platforms) |->
                         LET platform_embeddings == Masked(df, embeddings, p, 1) IN
                         IF Len(platform_embeddings) = 0 THEN Absent
                         ELSE File(platform_embeddings)]]

\* HybridSearch(n_candidates=n): load_data, load_embeddings
HybridSearch(csv, dir, n) ==
    LET df == csv
        embeddings == IF dir.embeddings.ex THEN dir.embeddings.rows ELSE df
        dir1 == [dir EXCEPT !.embeddings = File(embeddings)]
        found == \E p \in Range(Platforms) : dir.index[p].ex
        made == create_faiss_indices(df, embeddings)
        indices == IF found THEN dir.index ELSE made.indices
    IN  IF ~found /\ made.raised
        THEN [raised |-> TRUE, system |-> NoSystem, dir |-> dir1]
        ELSE [raised |-> FALSE,
              system |-> [up |-> TRUE, df |-> df, embeddings |-> embeddings,
                          faiss_indices |-> indices, n_candidates |-> n],
              dir |-> [dir1 EXCEPT !.index = indices]]

\* GET /api/applications_OLD: the first call creates the search system
create_search_system(n) ==
    LET r == HybridSearch(corpus_csv, emb_dir, n) IN
    /\ ~search_system.up
    /\ search_system' = r.system
    /\ emb_dir' = r.dir
    /\ last' = [NoLast EXCEPT !.op = "get_search_system", !.ok = ~r.raised,
                              !.raised = r.raised]
    /\ pending' = (pending /\ emb_dir.embeddings.ex)
    /\ UNCHANGED corpus_csv
    /\ UNCHANGED tenantVars

get_search_system == create_search_system(n_candidates)

\* POST /api/create_report for a caller without a loaded store: the rows
\* matching the summary to replace are dropped (old = 0: replace_report is
\* not set), the row goes to the default CSV and no embedding is updated
create_default_request(new, old) ==
        LET kept == IF old # 0 THEN RemoveMatching(corpus_csv, old) ELSE corpus_csv
            df == kept \o <<new>>
        IN
        /\ old = 0 \/ old \in Range(corpus_csv)
        /\ Len(df) <= MaxCorpus
        /\ budget.reports < MaxReports
        /\ budget' = [budget EXCEPT !.reports = @ + 1]
        /\ corpus_csv' = df
        /\ pending' = TRUE
        /\ last' = [NoLast EXCEPT !.op = "create_report_default", !.ok = TRUE,
                                  !.replace = (old # 0),
                                  !.rec = new, !.count = Len(corpus_csv)]
        /\ UNCHANGED <<emb_dir, search_system>>
        /\ UNCHANGED <<user_data_stores, disk, remote, initialized, user_data_dir, threads, cacheHist>>

\* POST /api/create_report without replace_report
create_report_default == \E new \in NewReports : create_default_request(new, 0)

\* the steps of update_embeddings_for_new_report that can raise
UpdateFailPoints == {"encode", "save_embeddings", "index_add", "write_index"}

\* update_embeddings_for_new_report(new_row_index) on the search system sys and
\* the directory dir; fail names the step that raises, "none" for a clean run
update_embeddings(sys, csv, dir, new_row_index, fail) ==
    LET sys1 == [sys EXCEPT !.df = csv]
        new_embedding == csv[new_row_index + 1]
        updated_embeddings == dir.embeddings.rows \o <<new_embedding>>
        dir2 == [dir EXCEPT !.embeddings = File(updated_embeddings)]
        sys2 == [sys1 EXCEPT !.embeddings = updated_embeddings]
        platform == Platform(new_embedding)
        added == File(sys.faiss_indices[platform].rows \o <<new_embedding>>)
        sys3 == [sys2 EXCEPT !.faiss_indices[platform] = added]
        dir3 == [dir2 EXCEPT !.index[platform] = added]
        Out(s, d, raised, appended, fired) ==
            [system |-> s, dir |-> d, raised |-> raised, appended |-> appended,
             fired |-> fired]
    IN
    IF ~sys.up THEN Out(sys, dir, FALSE, FALSE, FALSE)
    ELSE IF new_row_index >= Len(csv) THEN Out(sys1, dir, FALSE, FALSE, FALSE)
    ELSE IF fail = "encode" THEN Out(sys1, dir, TRUE, FALSE, TRUE)
    ELSE IF ~dir.embeddings.ex THEN Out(sys1, dir, FALSE, FALSE, FALSE)
    ELSE IF fail = "save_embeddings" THEN Out(sys1, dir, TRUE, FALSE, TRUE)
    ELSE IF ~sys.faiss_indices[platform].ex THEN Out(sys2, dir2, FALSE, TRUE, FALSE)
    ELSE IF fail = "index_add" THEN Out(sys2, dir2, TRUE, TRUE, TRUE)
    ELSE IF fail = "write_index" THEN Out(sys3, dir2, TRUE, TRUE, TRUE)
    ELSE Out(sys3, dir3, FALSE, TRUE, FALSE)

\* the embedding update for the report create_report_default added last
update_embeddings_for_new_report(fails) ==
    \E fail \in fails :
        LET new_row_index == Len(corpus_csv) - 1
            r == update_embeddings(search_system, corpus_csv, emb_dir,
                                   new_row_index, fail)
        IN
        /\ pending
        /\ fail # "none" => r.fired /\ budget.faults < MaxFaults
        /\ budget' = [budget EXCEPT !.faults = IF fail # "none" THEN @ + 1 ELSE @]
        /\ search_system' = r.system
        /\ emb_dir' = r.dir
        /\ pending' = FALSE
        /\ last' = [NoLast EXCEPT !.op = "update_embeddings", !.ok = r.appended,
                                  !.raised = r.raised,
                                  !.rec = corpus_csv[new_row_index + 1],
                                  !.count = new_row_index]
        /\ UNCHANGED <<user_data_stores, disk, remote, initialized, user_data_dir, threads, cacheHist>>
        /\ UNCHANGED corpus_csv

\* labels of the rows of df on platform plat and of application app, "" for
\* no restriction: df[...].index.tolist()
RECURSIVE LabelsWhere(_, _, _, _)
LabelsWhere(df, plat, app, i) ==
    IF i > Len(df) THEN <<>>
    ELSE (IF /\ (plat = "" \/ Platform(df[i]) = plat)
             /\ (app = "" \/ Application(df[i]) = app)
          THEN <<i - 1>> ELSE <<>>)
         \o LabelsWhere(df, plat, app, i + 1)

\* list[i] of Python: a negative i counts from the end
PyItem(list, i) == IF i >= 0 THEN list[i + 1] ELSE list[Len(list) + i + 1]

\* all_candidates.sort(key=faiss_score, reverse=True)
RECURSIVE ConcatByFaissDesc(_, _)
ConcatByFaissDesc(s, keys) ==
    IF keys = {} THEN <<>>
    ELSE LET k == CHOOSE x \in keys : \A y \in keys : x >= y IN
         SelectSeq(s, LAMBDA c : c.faiss_score = k) \o ConcatByFaissDesc(s, keys \ {k})

SortByFaissDesc(s) == ConcatByFaissDesc(s, {s[i].faiss_score : i \in DOMAIN s})

\* one index searched for k hits and the hits mapped through the labels of
\* the filtered rows of its platform; hit and partition keep the position
\* the index returned and the index it came from
PartitionCandidates(sys, q, plat, app, k) ==
    LET vecs == sys.faiss_indices[plat].rows
        indices == FaissSearch(vecs, q, k)
        platform_indices == LabelsWhere(sys.df, plat, app, 1)
        kept == SelectSeq(indices, LAMBDA i : i < Len(platform_indices))
    IN  [j \in DOMAIN kept |->
            [index |-> PyItem(platform_indices, kept[j]),
             faiss_score |-> IF kept[j] >= 0 THEN Sim(q, vecs[kept[j] + 1]) ELSE -1,
             hit |-> kept[j], partition |-> plat]]

\* self.n_candidates // len(self.faiss_indices)
PartitionShareWhole(n, count) == n
PartitionShare(n, count) == n \div count

RECURSIVE AllCandidates(_, _, _, _)
AllCandidates(sys, q, app, p) ==
    IF p > Len(Platforms) THEN <<>>
    ELSE LET plat == Platforms[p]
             platform_df == LabelsWhere(sys.df, plat, app, 1)
             n == Cardinality({x \in Range(Platforms) : sys.faiss_indices[x].ex})
             k == IF PartitionShare(sys.n_candidates, n) <= Len(platform_df)
                  THEN PartitionShare(sys.n_candidates, n) ELSE Len(platform_df)
         IN (IF sys.faiss_indices[plat].ex /\ Len(platform_df) > 0
             THEN PartitionCandidates(sys, q, plat, app, k) ELSE <<>>)
            \o AllCandidates(sys, q, app, p + 1)

\* the App Version and Language columns of a record; a missing version is
\* NaN, and load_data sets the Language of every row of this corpus to None,
\* written ""
AppVersion(r) ==
    IF r = 1 THEN Ver(<<3, 70, 19>>)
    ELSE IF r = 2 THEN Ver(<<3, 70, 20>>)
    ELSE IF r = 3 THEN NaNVersion
    ELSE Ver(<<4, 0, 0>>)

Language(r) == ""

\* the weighted combination of stage 3, in ten-thousandths: the re-ranker
\* score is in units, the version similarity in hundredths, the two matches
\* are 0 or 1
FinalScore(cross_score, version_similarity, platform_similarity, language_similarity) ==
    cross_score * 7000 + version_similarity * 15 + platform_similarity * 1000
    + language_similarity * 500

\* HybridSearch.search(query, application, platform, version, language,
\* top_k); predict is what
\* cross_encoder.predict does with the batch it is given, on an empty batch
\* as on any other: it returns one score per pair or it raises
WithFinal(r) ==
    [r EXCEPT !.final = FinalScore(r.cross_encoder_score, r.version_similarity,
                                   r.platform_similarity, r.language_similarity)]

\* the metadata scores of one candidate (the loop over candidate_indices)
ScoreCandidate(q, rec, index, platform, version, language) ==
    WithFinal(
        [index |-> index, rec |-> rec,
         cross_encoder_score |-> CE(q, rec),
         version_similarity |->
             IF version # NoVersion
             THEN _calculate_version_similarity(version, AppVersion(rec))
             ELSE 0,
         platform_similarity |->
             IF platform # "" /\ Platform(rec) = platform THEN 1 ELSE 0,
         language_similarity |->
             IF language # "" /\ Language(rec) # "" /\ Language(rec) = language
             THEN 1 ELSE 0,
         final |-> 0])

SearchOut(raised, res, n, sc) ==
    [raised |-> raised, results |-> res, count |-> n, scored |-> sc]

\* the sort by final_score and the cut to top_k
RankCandidates(scored, top_k) ==
    SearchOut(FALSE, Take(SortByFinalDesc(scored), top_k), Len(scored), scored)

\* a scored candidate with the hit it was mapped from
Traced(r, c) == r @@ [hit |-> c.hit, partition |-> c.partition]

\* the cross-encoder stage over the candidates the index returned
Rerank(sys, q, platform, version, language, top_k, predict, candidate_indices, found) ==
    IF Len(candidate_indices) = 0
    THEN SearchOut(predict = "raises", <<>>, 0, <<>>)
    ELSE IF predict = "raises"
    THEN SearchOut(TRUE, <<>>, Len(candidate_indices), <<>>)
    ELSE RankCandidates(
             [j \in DOMAIN candidate_indices |->
                 Traced(ScoreCandidate(q, sys.df[candidate_indices[j] + 1],
                                       candidate_indices[j], platform, version, language),
                        found[j])],
             top_k)

IndicesOf(found) == [j \in DOMAIN found |-> found[j].index]

RerankFound(sys, q, platform, version, language, top_k, predict, found) ==
    Rerank(sys, q, platform, version, language, top_k, predict, IndicesOf(found), found)

\* the candidates of the platform's index or of the whole index
FindCandidates(sys, q, application, platform, specific, n_platform) ==
    IF specific
    THEN PartitionCandidates(sys, q, platform, application,
                             IF sys.n_candidates <= n_platform
                             THEN sys.n_candidates ELSE n_platform)
    ELSE Take(SortByFaissDesc(AllCandidates(sys, q, application, 1)), sys.n_candidates)

SearchFrom(sys, q, application, platform, version, language, top_k, predict, specific, n_filtered, n_platform) ==
    IF n_filtered = 0 THEN SearchOut(FALSE, <<>>, 0, <<>>)
    ELSE IF specific /\ n_platform = 0 THEN SearchOut(FALSE, <<>>, 0, <<>>)
    ELSE RerankFound(sys, q, platform, version, language, top_k, predict,
                     FindCandidates(sys, q, application, platform,
                                    specific, n_platform))

HybridSearch_search(sys, q, application, platform, version, language, top_k, predict) ==
    SearchFrom(sys, q, application, platform, version, language, top_k, predict,
               platform # "" /\ sys.faiss_indices[platform].ex,
               Len(LabelsWhere(sys.df, "", application, 1)),
               Len(LabelsWhere(sys.df, platform, application, 1)))

PlatformFilters == {"", "android", "ios"}
CorpusTopK == {1, 10}

\* the query texts of the searches
CorpusQueries == {1, 3}

\* the platform, version and language filters of one call
FilterSets ==
    {[platform |-> p, version |-> NoVersion, language |-> ""] : p \in PlatformFilters}
    \cup {[platform |-> "android", version |-> Ver(<<3, 70, 19>>), language |-> "tr"],
          [platform |-> "", version |-> Ver(<<3, 70, 20>>), language |-> "en"]}

\* a caller of the search system runs one search
search_response(q, application, f, top_k, r) ==
    /\ last' = [NoLast EXCEPT !.op = "hybrid_search", !.ok = ~r.raised,
                              !.raised = r.raised, !.q = q, !.app = application,
                              !.platform = f.platform, !.version = f.version,
                              !.language = f.language, !.top_k = top_k,
                              !.k = top_k, !.scored = r.scored,
                              !.results = r.results, !.count = r.count]
    /\ UNCHANGED tenantVars
    /\ UNCHANGED corpusVars

hybrid_search ==
    /\ search_system.up
    /\ \E q \in CorpusQueries, application \in AppFilters, f \in FilterSets,
          top_k \in CorpusTopK, predict \in {"returns", "raises"} :
           search_response(q, application, f, top_k,
               HybridSearch_search(search_system, q, application, f.platform,
                                   f.version, f.language, top_k, predict))

InitDefault ==
    /\ user_data_stores = [t \in Tenants |-> NoStore]
    /\ disk = [t \in Tenants |-> EmptyDir]
    /\ remote = [t \in Tenants |-> EmptyBucket]
    /\ initialized = TRUE
    /\ cacheHist = [t \in Tenants |-> NoHist]
    /\ user_data_dir = NoCopy
    /\ threads = NoThreads
    /\ budget = [faults |-> 0, seeds |-> 0, reports |-> 0]
    /\ corpus_csv \in InitialCorpora
    /\ emb_dir = EmptyEmbDir
    /\ search_system = NoSystem
    /\ pending = FALSE
    /\ last = NoLast

NextDefault ==
    \/ get_search_system
    \/ create_report_default
    \/ update_embeddings_for_new_report({"none"} \cup UpdateFailPoints)
    \/ Restart

SpecDefault == InitDefault /\ [][NextDefault]_vars

NextDefaultSearch ==
    \/ get_search_system
    \/ create_report_default
    \/ update_embeddings_for_new_report({"none"})
    \/ hybrid_search

SpecDefaultSearch == InitDefault /\ [][NextDefaultSearch]_vars

\* the candidate pool: search systems constructed with a pool size the
\* corpus can exceed, and with the default
PoolSizes == {2, n_candidates}
PoolCorpora == InitialCorpora \cup {<<2, 1>>}

InitPool ==
    /\ user_data_stores = [t \in Tenants |-> NoStore]
    /\ disk = [t \in Tenants |-> EmptyDir]
    /\ remote = [t \in Tenants |-> EmptyBucket]
    /\ initialized = TRUE
    /\ cacheHist = [t \in Tenants |-> NoHist]
    /\ user_data_dir = NoCopy
    /\ threads = NoThreads
    /\ budget = [faults |-> 0, seeds |-> 0, reports |-> 0]
    /\ corpus_csv \in PoolCorpora
    /\ emb_dir = EmptyEmbDir
    /\ search_system = NoSystem
    /\ pending = FALSE
    /\ last = NoLast

\* a search that reaches the re-ranker with these filters
pool_search ==
    /\ search_system.up
    /\ \E q \in CorpusQueries, application \in AppFilters, platform \in PlatformFilters :
           search_response(q, application,
               [platform |-> platform, version |-> NoVersion, language |-> ""],
               default_top_k,
               HybridSearch_search(search_system, q, application, platform,
                                   NoVersion, "", default_top_k, "returns"))

NextPool ==
    \/ \E n \in PoolSizes : create_search_system(n)
    \/ create_report_default
    \/ update_embeddings_for_new_report({"none"} \cup UpdateFailPoints)
    \/ pool_search

SpecPool == InitPool /\ [][NextPool]_vars

\* the default corpus under reports that replace an older report
NextReplace ==
    \/ get_search_system
    \/ \E new \in NewReports, old \in {0} \cup CorpusIds : create_default_request(new, old)
    \/ update_embeddings_for_new_report({"none"})
    \/ pool_search
    \/ Restart

SpecReplace == InitDefault /\ [][NextReplace]_vars

\* ------------------------------------------------------ version similarity
Majors == {0, 3, 4}
Minors == {0, 70, 71}
Patches == {0, 19, 20}
Builds == {7}

\* the digit groups of the version strings compared, at most MaxGroups long
GroupSeqs ==
    {g \in UNION {[1..n -> Majors \cup Minors \cup Patches \cup Builds] : n \in 0..MaxGroups} :
        /\ Len(g) >= 1 => g[1] \in Majors
        /\ Len(g) >= 2 => g[2] \in Minors
        /\ Len(g) >= 3 => g[3] \in Patches
        /\ \A i \in DOMAIN g : i >= 4 => g[i] \in Builds}

VersionValues == {NoVersion, NAVersion, NaNVersion} \cup {Ver(g) : g \in GroupSeqs}

InitVersion ==
    /\ user_data_stores = [t \in Tenants |-> NoStore]
    /\ disk = [t \in Tenants |-> EmptyDir]
    /\ remote = [t \in Tenants |-> EmptyBucket]
    /\ initialized = TRUE
    /\ cacheHist = [t \in Tenants |-> NoHist]
    /\ user_data_dir = NoCopy
    /\ threads = NoThreads
    /\ budget = [faults |-> 0, seeds |-> 0, reports |-> 0]
    /\ NoCorpus
    /\ \E a \in VersionValues \ {NaNVersion}, b \in VersionValues :
          last = [NoLast EXCEPT !.op = "versions", !.version = a, !.rversion = b]

\* one call of _calculate_version_similarity on the pair drawn
CallVersionSimilarity ==
    /\ last.op = "versions"
    /\ last' = [last EXCEPT !.op = "version_similarity",
                            !.vsim = _calculate_version_similarity(last.version,
                                                                   last.rversion)]
    /\ UNCHANGED tenantVars
    /\ UNCHANGED corpusVars

\* the same call with the arguments the other way round
CallVersionSwapped ==
    /\ last.op = "version_similarity"
    /\ last.rversion.kind # "nan"
    /\ last' = [last EXCEPT !.op = "version_swapped",
                            !.vsim = _calculate_version_similarity(last.rversion,
                                                                   last.version)]
    /\ UNCHANGED tenantVars
    /\ UNCHANGED corpusVars

NextVersion == CallVersionSimilarity \/ CallVersionSwapped

SpecVersion == InitVersion /\ [][NextVersion]_vars

\* (major, minor, patch) of a version string, missing groups taken as 0
Triple(v) == [i \in 1..3 |-> IF i <= Len(v.groups) THEN v.groups[i] ELSE 0]

\* the rule on two triples, in hundredths
VersionRule(x, y) ==
    IF x = y THEN 100
    ELSE IF x[1] = y[1] /\ x[1] # 0 /\ x[2] = y[2] THEN 90 - 5 * Abs(x[3] - y[3])
    ELSE IF x[1] = y[1] /\ x[1] # 0 THEN 70 - 10 * Abs(x[2] - y[2])
    ELSE 0

\* a version string with at least one integer group
Parses(v) == v.kind = "text" /\ Len(v.groups) >= 1

\* the value the examples give for the pair, -1 for a pair that is no example
Example(a, b) ==
    IF a = Ver(<<3, 70, 19>>) /\ b = Ver(<<3, 70, 19>>) THEN 100
    ELSE IF a = Ver(<<3, 70, 19>>) /\ b = Ver(<<3, 70, 20>>) THEN 85
    ELSE IF a = Ver(<<3, 70, 19>>) /\ b = Ver(<<3, 71, 0>>) THEN 60
    ELSE IF a = Ver(<<4, 0, 0>>) /\ b = Ver(<<3, 70, 19>>) THEN 0
    ELSE IF a = NoVersion /\ b = Ver(<<3, 70, 19>>) THEN 0
    ELSE -1

\* C12: for two version strings with integer groups the similarity is the
\* rule on their triples (1.0 equal; 0.9 - 0.05 per patch step with major
\* nonzero and minor equal; 0.7 - 0.10 per minor step with major nonzero; else
\* 0.0), the five examples have the values stated, and swapping the
\* arguments gives the same value.
C12_VersionSimilarityRule ==
    /\ (last.op = "version_similarity" /\ Parses(last.version) /\ Parses(last.rversion))
       => last.vsim = VersionRule(Triple(last.version), Triple(last.rversion))
    /\ (last.op = "version_similarity" /\ Example(last.version, last.rversion) # -1)
       => last.vsim = Example(last.version, last.rversion)
    /\ last.op = "version_swapped"
       => last.vsim = _calculate_version_similarity(last.version, last.rversion)

C12_Witness ==
    /\ last.op = "version_similarity"
    /\ last.version = Ver(<<3, 70, 19>>)
    /\ last.rversion = Ver(<<3, 70, 20>>)
    /\ last.vsim = 85

\* ------------------------------------------------------ tenant properties
\* the vector array, the index search loads and the dataset of a tenant agree
AlignedIn(store, d) ==
    /\ d["embeddings.npy"].ex
    /\ d[index_path].ex
    /\ Len(d["embeddings.npy"].rows) = Len(store.data)
    /\ Len(d[index_path].rows) = Len(store.data)

Aligned(t) == AlignedIn(user_data_stores[t], disk[t])

\* C5: of two consecutive builds of a tenant made with the cache enabled and
\* reachable and no other writer in between, the first generating and
\* uploading, the second one is a download: the embedder runs once in total.
C5_SecondBuildIsDownload ==
    \A t \in Tenants : cacheHist[t].prev = "gen" => cacheHist[t].cur = "hit"

\* C6: after a successful build and one successful create_report (no
\* replacement) the new record is the dataset row at ordinal N and the index
\* search loads holds its vector at position N.
C6_AppendedRecordIndexed ==
    (/\ last.op = "create_report"
     /\ ~last.replace
     /\ last.buildOk
     /\ user_data_stores[last.t].embeddingsCreated = "true")
    => LET n == last.count
           df == user_data_stores[last.t].data
           idx == disk[last.t][index_path]
       IN /\ Len(df) = n + 1
          /\ df[n + 1] = last.rec
          /\ idx.ex
          /\ Len(idx.rows) = n + 1
          /\ idx.rows[n + 1] = last.rec

\* C7: for a tenant with a working build, an upload_data whose build fails
\* leaves the tenant's store and the vectors, index and metadata on disk as
\* they were before the request.
C7_FailedBuildKeepsState ==
    [][(/\ last'.op = "upload_data"
        /\ ~last'.buildOk
        /\ user_data_stores[last'.t].embeddingsCreated = "true"
        /\ Aligned(last'.t))
        => /\ user_data_stores'[last'.t] = user_data_stores[last'.t]
           /\ \A f \in {"embeddings.npy", index_path, "metadata.json"} :
                 disk'[last'.t][f] = disk[last'.t][f]]_vars

\* C2: with an application filter set, every result returned to the caller
\* is a record of that application.
C2_ResultsMatchApplication ==
    (last.op \in {"search", "hybrid_search"} /\ last.app # "")
    => \A i \in DOMAIN last.results : Application(last.results[i].rec) = last.app

\* C3: the number of results of a search asking for a topK in 1..50 is at
\* most that topK, at most 50 and at most the number of records of the
\* dataset searched.
C3_TopKBound ==
    (last.op = "search" /\ last.ok /\ last.top_k \in 1..max_top_k)
    => /\ Len(last.results) <= last.top_k
       /\ Len(last.results) <= max_top_k
       /\ Len(last.results) <= Len(user_data_stores[last.t].data)


\* 1 for a match that is reported as true or 1, 0 otherwise
AsNumber(m) == IF m = TRUE \/ m = 1 THEN 1 ELSE 0

\* 1 exactly when a filter is given and the candidate's value equals it
MatchOf(filter, value) == IF filter # "" /\ value = filter THEN 1 ELSE 0

\* the weighted sum of the four reported components, in ten-thousandths
Fusion(ce, vs, pm, lm) == 7000 * ce + 15 * vs + 1000 * pm + 500 * lm

\* C13: every result a search returns carries a final score equal to
\* 0.70 * re-ranker score + 0.15 * version similarity + 0.10 * platform match
\* + 0.05 * language match, the version similarity being computed from the
\* version filter and the candidate's version, and each match being 1 exactly
\* when the filter is given and the candidate's value equals it
C13_ScoreFusion ==
    /\ last.op = "hybrid_search" =>
          \A i \in DOMAIN last.results :
              LET r == last.results[i] IN
              /\ r.final = Fusion(r.cross_encoder_score, r.version_similarity,
                                  r.platform_similarity, r.language_similarity)
              /\ r.version_similarity =
                     _calculate_version_similarity(last.version, AppVersion(r.rec))
              /\ r.platform_similarity = MatchOf(last.platform, Platform(r.rec))
              /\ r.language_similarity = MatchOf(last.language, Language(r.rec))
    /\ last.op = "search" =>
          \A i \in DOMAIN last.results :
              LET r == last.results[i] IN
              /\ r.final = Fusion(r.cross_encoder_score, r.version_similarity,
                                  AsNumber(r.platform_match), AsNumber(r.language_match))
              /\ AsNumber(r.platform_match) = MatchOf(last.platform, "")
              /\ AsNumber(r.language_match) = MatchOf(last.language, "")

\* the place of element k of s in a stable non-increasing order: after every
\* element with a greater final score and after the earlier ones with an
\* equal score
Rank(s, k) ==
    Cardinality({j \in DOMAIN s : s[j].final > s[k].final})
    + Cardinality({j \in 1..(k - 1) : s[j].final = s[k].final}) + 1

InStableOrder(s) == [i \in DOMAIN s |-> s[CHOOSE k \in DOMAIN s : Rank(s, k) = i]]

FirstK(s, k) == [i \in 1..(IF k < Len(s) THEN k ELSE Len(s)) |-> s[i]]

\* C14: the results of a search are in non-increasing order of final score,
\* candidates of equal score keep the order of stage 1, and the list is
\* exactly the first topK of that order
C14_ResultOrdering ==
    last.op \in {"search", "hybrid_search"} =>
        /\ \A i \in 1..(Len(last.results) - 1) :
               last.results[i].final >= last.results[i + 1].final
        /\ last.results = FirstK(InStableOrder(last.scored), last.k)

\* a search whose candidates were out of order, with two distinct candidates
\* of equal score among the results, and more candidates than topK
C14_Witness ==
    /\ last.op = "search"
    /\ Len(last.scored) > last.k
    /\ Len(last.results) = last.k
    /\ \E i, j \in DOMAIN last.scored : i < j /\ last.scored[i].final < last.scored[j].final
    /\ \E i, j \in DOMAIN last.results :
           /\ i < j
           /\ last.results[i].final = last.results[j].final
           /\ last.results[i].index # last.results[j].index

\* a requested topK brought into the range [1, 50]
Clamped(top_k) == IF top_k > max_top_k THEN max_top_k ELSE IF top_k < 1 THEN 1 ELSE top_k

\* C15: the server serves a request with its topK clamped to [1, 50]: a value
\* above 50 is served as 50, a value below 1 as 1, a value in range unchanged
C15_TopKClamped ==
    (last.op = "search" /\ last.ok) =>
        /\ last.k = Clamped(last.top_k)
        /\ Len(last.results) <= Clamped(last.top_k)
        /\ Len(last.results) = Len(FirstK(last.scored, Clamped(last.top_k)))

\* C16: a get for a tenant that is not in the registry yields a store with
\* loaded = true exactly when the metadata and the dataset file both exist and
\* load; with metadata and no dataset file the store is not loaded and has no
\* dataset; with nothing on disk it is a fresh empty store; the store is in
\* the registry afterwards, and a get for a tenant already there returns the
\* store unchanged
C16_RegistryGet ==
    [][last'.op = "data_status" =>
          LET t == last'.t
              before == user_data_stores[t]
              after == user_data_stores'[t]
              d == disk[t]
          IN
          /\ after.present
          /\ last'.ok = after.loaded
          /\ before.present => after = before
          /\ ~before.present =>
                /\ after.loaded = (/\ d["metadata.json"].ex /\ d["data.csv"].ex
                                   /\ ~last'.raised)
                /\ (d["metadata.json"].ex /\ ~d["data.csv"].ex) =>
                       (~after.loaded /\ ~after.hasData /\ after.data = <<>>)
                /\ (~d["metadata.json"].ex /\ ~d["data.csv"].ex) =>
                       after = [NoStore EXCEPT !.present = TRUE]]_vars

\* a get has rebuilt a store from metadata whose dataset file is missing
C16_Witness ==
    /\ last.op = "data_status"
    /\ disk[last.t]["metadata.json"].ex
    /\ ~disk[last.t]["data.csv"].ex
    /\ user_data_stores[last.t].embeddingsCreated = "true"
    /\ ~user_data_stores[last.t].loaded

RunAlone(w, data) ==
    IF threads.writers[w].kind = "append" THEN data \o <<WriterRec[w]>> ELSE RebuildRows

SerialOutcomes ==
    {RunAlone("w2", RunAlone("w1", BaseRows)), RunAlone("w1", RunAlone("w2", BaseRows))}

AllDone == \A w \in Writers : threads.writers[w].pc = "done"

\* C18: when two appends, or an append and a rebuild, of one tenant have run
\* on separate threads, the dataset is the one some serial order of the two
\* leaves, and the dataset file, the vector array and the index hold it too
C18_SerialOutcome ==
    AllDone =>
        \E fin \in SerialOutcomes :
            /\ user_data_stores[Worker].data = fin
            /\ disk[Worker]["data.csv"].rows = fin
            /\ disk[Worker]["embeddings.npy"].rows = fin
            /\ disk[Worker][index_path].rows = fin

\* C19: a search that ran next to a build or append has loaded metadata, a
\* vector array and an index that were written by one and the same write
C19_ReaderSeesOneWrite ==
    (threads.reader.pc = "idle" /\ threads.reader.ok) =>
        /\ threads.reader.meta = threads.reader.emb
        /\ threads.reader.emb = threads.reader.idx

\* C20: the text embedder and the pairwise scorer are each loaded at most
\* once in the life of the process, whatever searches and builds run
C20_ModelsLoadedOnce ==
    /\ threads.bi_encoder <= 1
    /\ threads.cross_encoder <= 1

\* the vectors, the index and the metadata of tenant t on disk are those of
\* its dataset, row for row
LocalSetOf(t) ==
    /\ disk[t]["embeddings.npy"] = File(user_data_stores[t].data)
    /\ disk[t][index_path] = File(user_data_stores[t].data)
    /\ disk[t]["metadata.json"] = File(user_data_stores[t].data)

\* the remote store failed or was not there during the last build, and the
\* embedder, the index build and the local writes did not
RemoteOutage ==
    /\ last.op \in {"upload_data", "create_report"}
    /\ last.buildRan
    /\ last.fault # "gen"
    /\ last.storeFailed \/ ~initialized

\* C11: a build during which the remote store fails (not initialised, exists
\* check raising, download failing, upload failing) and nothing local fails
\* returns success and leaves a complete local artifact set made from the
\* given dataset, which search can load.
C11_CacheErrorsNotFatal ==
    RemoteOutage
    => /\ last.buildOk
       /\ LocalSetOf(last.t)
       /\ load_user_data(disk[last.t])

C11_Witness ==
    /\ RemoteOutage
    /\ last.storeFailed
    /\ last.fault = "none"
    /\ last.buildOk
    /\ LocalSetOf(last.t)

\* ------------------------------------------------------ default corpus properties
\* the vector array, the dataset and the partition indices of the search
\* system agree in size
CorpusAligned(sys) ==
    /\ Len(sys.embeddings) = Len(sys.df)
    /\ Len(sys.embeddings) = SumNtotal(sys.faiss_indices)

\* the search system is up and in step with the directory, and the CSV holds
\* exactly one row more than it: the report to append
ReadyToAppend ==
    /\ search_system.up
    /\ CorpusAligned(search_system)
    /\ emb_dir.embeddings = File(search_system.embeddings)
    /\ emb_dir.index = search_system.faiss_indices
    /\ Len(corpus_csv) = Len(search_system.df) + 1

\* C1: after a build that reports success and after an append that completes
\* without error, the vector array has as many rows as the dataset held and
\* as the index (summed over the platform partitions) has vectors.
C1_AlignmentInvariant ==
    [][/\ (last'.op \in {"upload_data", "create_report"} /\ last'.buildOk)
          => AlignedIn(user_data_stores'[last'.t], disk'[last'.t])
       /\ (/\ last'.op = "update_embeddings"
           /\ ReadyToAppend
           /\ last'.ok
           /\ ~last'.raised)
          => CorpusAligned(search_system)']_vars

\* C8: an append with a step that fails or is skipped reports failure, and
\* memory (vector array, live index, dataset) and disk (vector file, index
\* files) are both updated with the new record or both left as before.
C8_AppendAllOrNothing ==
    [][(last'.op = "update_embeddings" /\ ReadyToAppend)
       => LET rec == last'.rec
              plat == Platform(rec)
              grown == File(search_system.faiss_indices[plat].rows \o <<rec>>)
              memUpdated ==
                  /\ search_system'.df = corpus_csv
                  /\ search_system'.embeddings = search_system.embeddings \o <<rec>>
                  /\ search_system'.faiss_indices =
                        [search_system.faiss_indices EXCEPT ![plat] = grown]
              diskUpdated ==
                  /\ emb_dir'.embeddings = File(emb_dir.embeddings.rows \o <<rec>>)
                  /\ emb_dir'.index = [emb_dir.index EXCEPT ![plat] = grown]
              memSame == search_system' = search_system
              diskSame == emb_dir' = emb_dir
          IN /\ (memUpdated /\ diskUpdated) \/ (memSame /\ diskSame)
             /\ ~(memUpdated /\ diskUpdated) => last'.raised]_vars

\* the partitions a search with this platform filter looks into
Searched(sys, platform) ==
    IF platform # "" /\ sys.faiss_indices[platform].ex THEN {platform}
    ELSE {p \in Range(Platforms) : sys.faiss_indices[p].ex}

\* C4: a search whose filters match no record of any partition it looks
\* into, also when the rows they match lie in platforms without a partition
\* index, returns an empty list and does not raise.
C4_EmptyUniverseReturnsEmpty ==
    (/\ last.op = "hybrid_search"
     /\ \A p \in Searched(search_system, last.platform) :
            LabelsWhere(search_system.df, p, last.app, 1) = <<>>)
    => (~last.raised /\ last.results = <<>>)

\* ------------------------------------------------------- stage-2 failures
\* the last search called the pairwise scorer and the call failed
ScorerFailed ==
    \/ /\ last.op = "search"
       /\ last.raised
       /\ user_data_stores[last.t].loaded
       /\ user_data_stores[last.t].hasData
       /\ load_user_data(disk[user_embeddings_dir(last.t)])
       /\ Len(UserScored(disk[user_embeddings_dir(last.t)], last.q,
                         user_data_stores[last.t].data)) > 0
    \/ /\ last.op = "hybrid_search"
       /\ last.raised
       /\ last.count > 0

\* C21: when the pairwise scorer call fails during a search, the search
\* reports a failure to its caller and returns no list ranked by another
\* method.
C21_Stage2FailureSurfaced ==
    ScorerFailed => (~last.ok /\ last.results = <<>>)

\* ------------------------------------------------------ version similarity
\* C22: for every pair of version strings the similarity returned lies in
\* [0, 1] (0..100 hundredths), however far apart the minor or patch numbers.
C22_VersionSimilarityRange ==
    last.op \in {"version_similarity", "version_swapped"}
    => (0 <= last.vsim /\ last.vsim <= 100)

\* a version string that is empty or holds no integer group
Unparseable(v) == v.kind \in {"empty", "N/A"} \/ (v.kind = "text" /\ v.groups = <<>>)

\* C23: when either argument is empty or holds no integer group the
\* similarity is 0.0, also when both arguments are non-empty strings without
\* digits.
C23_UnparseableIsZero ==
    (/\ last.op = "version_similarity"
     /\ Unparseable(last.version) \/ Unparseable(last.rversion))
    => last.vsim = 0

\* ------------------------------------------------------ the candidate pool
\* the partitions of the search system and the candidates of the last search
\* that come from partition p
Partitions == {p \in Range(Platforms) : search_system.faiss_indices[p].ex}
FromPartition(p) == SelectSeq(last.scored, LAMBDA c : Platform(c.rec) = p)
RowsOf(p) == LabelsWhere(search_system.df, p, "", 1)
SinglePartition == last.platform # "" /\ last.platform \in Partitions

SetExists(rem) == \A i \in DOMAIN essential_files : rem[essential_files[i]].ex
SetComplete(rem) == \A i \in DOMAIN files_to_download : rem[files_to_download[i]].ex

\* the three artifacts of directory d are the ones generated from df
GeneratedFrom(d, df) ==
    /\ d["embeddings.npy"] = File(df)
    /\ d[index_path] = File(df)
    /\ d["metadata.json"] = File(df)

\* C25: with the cache enabled, a build that finds the remote set and
\* downloads all of it returns success with the downloaded files in place,
\* no vector or index generated and whatever dataset it was given; a build
\* that finds the set and whose download fails (a file missing, or a call of
\* the store raising) generates locally and returns success.
C25_CacheHitAuthoritative ==
    [][(last'.op \in {"upload_data", "create_report"} /\ last'.buildRan /\ initialized) =>
          LET t == last'.t
              rem == remote[t]
              d == disk'[t]
              df == user_data_stores'[t].data
          IN
          /\ (SetExists(rem) /\ SetComplete(rem) /\ last'.fault = "none") =>
                /\ last'.buildOk
                /\ cacheHist'[t].cur = "hit"
                /\ d[index_path] = disk[t][index_path]
                /\ \A i \in DOMAIN essential_files :
                      d[essential_files[i]] = rem[essential_files[i]]
                /\ remote'[t] = rem
          /\ (/\ SetExists(rem)
              /\ \/ last'.fault = "store"
                 \/ ~SetComplete(rem) /\ last'.fault = "none") =>
                /\ last'.buildOk
                /\ GeneratedFrom(d, df)]_vars

\* a build that ended on a cache hit for a dataset other than the cached one
C25_Witness ==
    /\ last.op \in {"upload_data", "create_report"}
    /\ last.buildOk
    /\ cacheHist[last.t].cur = "hit"
    /\ disk[last.t]["embeddings.npy"].ex
    /\ disk[last.t]["embeddings.npy"].rows # user_data_stores[last.t].data

\* ------------------------------------------------------------ replacement
\* the vectors and the indices of the search system are those of rows, one
\* vector per row in row order
RebuiltFrom(sys, rows) ==
    /\ sys.df = rows
    /\ sys.embeddings = rows
    /\ \A p \in Range(Platforms) :
          sys.faiss_indices[p].rows = Masked(rows, rows, p, 1)

\* C26: when create_report with replace_report has removed rows from a
\* dataset and appended the new row, the search that follows finds the
\* vectors and the index rebuilt from the resulting rows: no vector of a
\* removed row is left and row ordinals match vector ordinals.
C26_ReplacementRebuilds ==
    [][/\ (/\ last.op = "create_report_default"
           /\ last.replace
           /\ Len(corpus_csv) <= last.count
           /\ last'.op = "hybrid_search")
          => RebuiltFrom(search_system', corpus_csv')
       /\ (/\ last.op = "create_report"
           /\ last.replace
           /\ Len(user_data_stores[last.t].data) <= last.count
           /\ last'.op = "search"
           /\ last'.t = last.t)
          => GeneratedFrom(disk'[last.t], user_data_stores'[last.t].data)]_vars

\* ------------------------------------------------------------ hit mapping
\* the vector at position i of the partition index p; a vector is written as
\* the record it was computed from
InsertedAt(p, i) == search_system.faiss_indices[p].rows[i + 1]

\* C27: for every combination of filters, the record HybridSearch.search
\* returns for a hit at position i of a partition index is the record whose
\* vector was inserted at position i of that index.
C27_HitDenotesInsertedRecord ==
    (last.op = "hybrid_search" /\ ~last.raised)
    => \A j \in DOMAIN last.scored :
          LET c == last.scored[j] IN
          (c.hit >= 0 /\ c.hit < ntotal(search_system.faiss_indices[c.partition]))
          => c.rec = InsertedAt(c.partition, c.hit)

\* --------------------------------------------------------- result ordinals
\* C28: every result of the tenant search carries an index in
\* 0..len(dataset)-1 that is the ordinal of the row whose fields it carries,
\* and no row appears twice, also when the index holds fewer vectors than
\* the rerank_k candidates asked of it.
C28_ValidDistinctOrdinals ==
    (last.op = "search" /\ last.ok)
    => LET df == user_data_stores[last.t].data
           res == last.results
       IN /\ \A i \in DOMAIN res :
                /\ res[i].index \in 0..(Len(df) - 1)
                /\ df[res[i].index + 1] = res[i].rec
          /\ \A i, j \in DOMAIN res : i # j => res[i].index # res[j].index

\* --------------------------------------------------- exists and download
\* C29: a build without failures that finds the remote set (the exists check
\* returns True) gets True from the download that follows, and after a build
\* whose upload reported success the exists check returns True.
C29_ExistsAgreesWithDownload ==
    [][(/\ last'.op \in {"upload_data", "create_report"}
        /\ last'.buildRan
        /\ last'.fault = "none"
        /\ initialized) =>
          LET t == last'.t IN
          /\ check_artifacts_exist(initialized, remote[t], FALSE)
             => cacheHist'[t].cur = "hit"
          /\ cacheHist'[t].cur = "gen"
             => check_artifacts_exist(initialized, remote'[t], FALSE)]_vars

\* ------------------------------------------------- registry and disk
\* C30: after a completed upload_data, create_report or extract_features
\* request that reports success, the dataset of the store, its rowCount, the
\* rows of data.csv and the record count of metadata.json agree, and a get
\* for the tenant on an empty registry rebuilds a store with that dataset.
C30_RegistryDiskCoherent ==
    (last.op \in {"upload_data", "create_report", "extract_features"} /\ last.ok)
    => LET store == user_data_stores[last.t]
           d == disk[user_embeddings_dir(last.t)]
           again == get_user_data_store([t \in Tenants |-> NoStore], d, last.t)
       IN /\ Len(store.data) = store.rowCount
          /\ d["data.csv"].ex
          /\ Len(read_csv(d["data.csv"])) = store.rowCount
          /\ d["metadata.json"].ex
          /\ Len(d["metadata.json"].rows) = store.rowCount
          /\ again.loaded
          /\ again.data = store.data

====
